---- MODULE Spec2Model ----
(***************************************************************************)
(* Model of the Appwrite Go SDK client (package appwrite).                 *)
(*                                                                         *)
(* The repository holds two near-identical copies of the client:           *)
(*   src/client.go          forces Content-Type on non-GET requests        *)
(*   src/unnamed/part_000   does not                                       *)
(* The variable `variant` says which copy a behaviour runs.                *)
(*                                                                         *)
(* Go values are modelled as follows.                                      *)
(*   map[string]T     [alloc |-> BOOLEAN, kv |-> function]; alloc = FALSE  *)
(*                    is the nil map (readable, a write panics)            *)
(*   interface{}      [t |-> type tag, s |-> string, n |-> integer]        *)
(*   *http.Client     a natural number, 0 is nil                           *)
(*   io.Reader        [present |-> BOOLEAN, data |-> STRING]               *)
(*   error            a string, "nil" is the nil error                     *)
(***************************************************************************)
EXTENDS Integers, Sequences, FiniteSets

VARIABLES
    variant,     \* which source file the Client is compiled from
    client,      \* clt.client: the transport handle, 0 = nil
    endpoint,    \* clt.endpoint
    headers,     \* clt.headers
    selfSigned,  \* clt.selfSigned
    created,     \* number of &http.Client{} allocations so far
    panicked,    \* a run-time panic unwound the caller
    pc,          \* sequential caller: "idle" or "awaiting" (blocked in Do)
    args,        \* arguments of the Call in progress
    req,         \* the request handed to the transport
    resp,        \* the response the transport delivered
    ret,         \* what the last Call that returned gave back
    tpc,         \* concurrent callers: position of each goroutine
    tloc,        \* concurrent callers: locals of each goroutine
    raced,       \* a map write happened while another goroutine ranged over it
    fatal        \* the Go runtime detected the race and killed the process

vars == <<variant, client, endpoint, headers, selfSigned, created, panicked,
          pc, args, req, resp, ret, tpc, tloc, raced, fatal>>

cfgVars == <<endpoint, headers, selfSigned>>
seqVars == <<pc, args, req, resp, ret>>
concVars == <<tpc, tloc, raced, fatal>>

-----------------------------------------------------------------------------
(* Bounds *)

MaxHeaders == 2      \* entries kept in clt.headers
MaxArgs == 1      \* entries in a per-call headers or params map
MaxBodyLen == 3      \* tokens in a response body

-----------------------------------------------------------------------------
(* Go maps *)

EmptyKV == [k \in {} |-> ""]
NilMap == [alloc |-> FALSE, kv |-> EmptyKV]
EmptyMap == [alloc |-> TRUE, kv |-> EmptyKV]

Keys(m) == DOMAIN m.kv

\* m[k] = v on a kv function
Put(kv, k, v) == [x \in (DOMAIN kv) \cup {k} |-> IF x = k THEN v ELSE kv[x]]

\* every iteration order `range` may take over a map with key set S
Orders(S) == {o \in [1..Cardinality(S) -> S] : \A i, j \in 1..Cardinality(S) : o[i] = o[j] => i = j}

\* the allocated maps with at most n entries whose value under k is in D[k]
MapsOver(D, n) ==
    {[alloc |-> TRUE, kv |-> f] :
        f \in UNION {{g \in [S -> UNION {D[k] : k \in S}] : \A k \in S : g[k] \in D[k]} :
                       S \in {T \in SUBSET DOMAIN D : Cardinality(T) <= n}}}

-----------------------------------------------------------------------------
(* Inputs *)

Variants == {"client.go", "part_000"}

Vals == {"p1", "p2"}         \* values given to SetProject
OneVal == {"p1"}             \* value given to SetKey, SetLocale, SetMode
AddKeys == {"x-appwrite-project", "Content-Type"}
AddVals == {"p2"}            \* value given to AddHeader
Endpoints == {"http://h/v1", ":"}

StrVal(s) == [t |-> "string", s |-> s, n |-> 0]
IntVal(n) == [t |-> "int", s |-> "", n |-> n]
NaN == [t |-> "float", s |-> "NaN", n |-> 0]

Methods == {"GET", "get", "POST", "P T"}
Paths == {"/x", "/y?a=0"}
CustomVals ==
    [k \in {"X-Appwrite-Project", "content-type"} |->
        IF k = "content-type" THEN {StrVal("c1")} ELSE {StrVal("c1"), IntVal(42)}]
ParamVals ==
    [k \in {"a", "b"} |-> IF k = "a" THEN {StrVal("a b"), NaN} ELSE {IntVal(42)}]

CustomMaps == {NilMap} \cup MapsOver(CustomVals, MaxArgs)
ParamMaps == {NilMap} \cup MapsOver(ParamVals, MaxArgs)

-----------------------------------------------------------------------------
(* Library conversions the client relies on *)

\* strings.ToUpper
ToUpper(s) ==
    CASE s = "get" -> "GET"
      [] s = "post" -> "POST"
      [] OTHER -> s

\* textproto.CanonicalMIMEHeaderKey, applied by http.Header.Set
CanonicalMIMEHeaderKey(k) ==
    CASE k = "x-appwrite-project" -> "X-Appwrite-Project"
      [] k = "content-type" -> "Content-Type"
      [] OTHER -> k

Digit(d) == <<"0", "1", "2", "3", "4", "5", "6", "7", "8", "9">>[d + 1]

RECURSIVE Itoa(_)
Itoa(n) == IF n < 10 THEN Digit(n) ELSE Itoa(n \div 10) \o Digit(n % 10)

\* ToString: the string form of a dynamically typed value
ToString(x) ==
    CASE x.t = "string" -> x.s
      [] x.t = "int" -> Itoa(x.n)
      [] x.t = "float" -> x.s

\* url.QueryEscape
QueryEscape(s) ==
    CASE s = "a b" -> "a+b"
      [] OTHER -> s

\* http.Header.Set
HeaderSet(h, k, v) == Put(h, CanonicalMIMEHeaderKey(k), v)

\* http.Header.Get
HeaderGet(h, k) ==
    IF CanonicalMIMEHeaderKey(k) \in DOMAIN h THEN h[CanonicalMIMEHeaderKey(k)] ELSE ""

-----------------------------------------------------------------------------
(* Client state *)

NoArgs == [method |-> "", path |-> "", headers |-> NilMap, params |-> NilMap]
NilReader == [present |-> FALSE, data |-> ""]
NoRequest == [built |-> FALSE, method |-> "", url |-> "", header |-> EmptyKV,
              body |-> NilReader, rawQuery |-> <<>>, via |-> 0]
NoResponse == [present |-> FALSE, status |-> 0, body |-> <<>>]
NilResult == [nil |-> TRUE, kv |-> EmptyKV]
NoReturn == [returned |-> FALSE, result |-> NilResult, err |-> "nil"]

Threads == {1, 2}
NoLocals == [todo |-> {}, hdr |-> EmptyKV, sawNil |-> FALSE]

\* The zero value Client{} (the only value code outside the package can
\* build), or a Client literal with an allocated header map.
Init ==
    /\ variant \in Variants
    /\ client = 0
    /\ endpoint = ""
    /\ headers \in {NilMap, EmptyMap}
    /\ selfSigned = FALSE
    /\ created = 0
    /\ panicked = FALSE
    /\ pc = "idle"
    /\ args = NoArgs
    /\ req = NoRequest
    /\ resp = NoResponse
    /\ ret = NoReturn
    /\ tpc = [t \in Threads |-> "idle"]
    /\ tloc = [t \in Threads |-> NoLocals]
    /\ raced = FALSE
    /\ fatal = FALSE

-----------------------------------------------------------------------------
(* Configuration setters, called by a single sequential caller *)

Ready == pc = "idle" /\ ~panicked

SetEndpoint(e) ==
    /\ Ready
    /\ endpoint' = e
    /\ UNCHANGED <<variant, client, headers, selfSigned, created, panicked, seqVars, concVars>>

SetSelfSigned(status) ==
    /\ Ready
    /\ selfSigned' = status
    /\ UNCHANGED <<variant, client, endpoint, headers, created, panicked, seqVars, concVars>>

\* clt.headers[key] = value: panics on the nil map
WriteHeader(key, value) ==
    IF headers.alloc
    THEN /\ Cardinality(Keys(headers) \cup {key}) <= MaxHeaders
         /\ headers' = [headers EXCEPT !.kv = Put(headers.kv, key, value)]
         /\ UNCHANGED panicked
    ELSE /\ panicked' = TRUE
         /\ UNCHANGED headers

AddHeader(key, value) ==
    /\ Ready
    /\ WriteHeader(key, value)
    /\ UNCHANGED <<variant, client, endpoint, selfSigned, created, seqVars, concVars>>

SetProject(value) ==
    /\ Ready
    /\ WriteHeader("X-Appwrite-Project", value)
    /\ UNCHANGED <<variant, client, endpoint, selfSigned, created, seqVars, concVars>>

SetKey(value) ==
    /\ Ready
    /\ WriteHeader("X-Appwrite-Key", value)
    /\ UNCHANGED <<variant, client, endpoint, selfSigned, created, seqVars, concVars>>

SetLocale(value) ==
    /\ Ready
    /\ WriteHeader("X-Appwrite-Locale", value)
    /\ UNCHANGED <<variant, client, endpoint, selfSigned, created, seqVars, concVars>>

SetMode(value) ==
    /\ Ready
    /\ WriteHeader("X-Appwrite-Mode", value)
    /\ UNCHANGED <<variant, client, endpoint, selfSigned, created, seqVars, concVars>>

Setters ==
    \/ \E e \in Endpoints : SetEndpoint(e)
    \/ \E b \in BOOLEAN : SetSelfSigned(b)
    \/ \E k \in AddKeys, v \in AddVals : AddHeader(k, v)
    \/ \E v \in Vals : SetProject(v)
    \/ \E v \in OneVal : SetKey(v)
    \/ \E v \in OneVal : SetLocale(v)
    \/ \E v \in OneVal : SetMode(v)

-----------------------------------------------------------------------------
(* Request construction *)

ParamKeyOrder == <<"a", "b">>      \* ParamKeys in sorted order

\* json.Marshal of one value; NaN has no JSON encoding
Supported(x) == x.t # "float"
Encode(x) == IF x.t = "string" THEN "\"" \o x.s \o "\"" ELSE Itoa(x.n)

RECURSIVE Members(_, _, _)
Members(kv, i, first) ==
    IF i > Len(ParamKeyOrder) THEN ""
    ELSE LET k == ParamKeyOrder[i] IN
         IF k \in DOMAIN kv
         THEN (IF first THEN "" ELSE ",") \o "\"" \o k \o "\":" \o Encode(kv[k])
                  \o Members(kv, i + 1, FALSE)
         ELSE Members(kv, i + 1, first)

\* json.Marshal(params): keys sorted, nil map is null
Marshal(params) ==
    IF ~params.alloc THEN [err |-> FALSE, data |-> "null"]
    ELSE IF \E k \in Keys(params) : ~Supported(params.kv[k]) THEN [err |-> TRUE, data |-> ""]
    ELSE [err |-> FALSE, data |-> "{" \o Members(params.kv, 1, TRUE) \o "}"]

prepareRequestBody(params) ==
    LET m == Marshal(params) IN
    IF m.err THEN NilReader ELSE [present |-> TRUE, data |-> m.data]

\* net/http validMethod
ValidMethod(m) == m # "P T"

\* url.Parse of endpoint + path
ParseFails(u) == u \in {":" \o p : p \in Paths}
HasScheme(u) == u \in {"http://h/v1" \o p : p \in Paths}
URLQuery(u) ==
    IF u \in {e \o "/y?a=0" : e \in {"", "http://h/v1"}} THEN [k \in {"a"} |-> <<"0">>]
    ELSE [k \in {} |-> <<>>]

RECURSIVE SetEach(_, _, _, _)
SetEach(h, kv, order, i) ==
    IF i > Len(order) THEN h
    ELSE SetEach(HeaderSet(h, order[i], kv[order[i]]), kv, order, i + 1)

\* setHeaders with the two loops swapped: the Client's headers go last
setHeadersClientLast(h, clientHeaders, customHeaders, o1, o2) ==
    LET custom == [k \in Keys(customHeaders) |-> ToString(customHeaders.kv[k])]
        afterCustom == SetEach(h, custom, o2, 1)
    IN [header |-> SetEach(afterCustom, clientHeaders.kv, o1, 1), clientHeaders |-> clientHeaders]

\* setHeaders that also stores the custom headers in the Client's map
setHeadersStoring(h, clientHeaders, customHeaders, o1, o2) ==
    LET afterClient == SetEach(h, clientHeaders.kv, o1, 1)
        custom == [k \in Keys(customHeaders) |-> ToString(customHeaders.kv[k])]
        stored == [k \in Keys(clientHeaders) \cup Keys(customHeaders) |->
                     IF k \in Keys(customHeaders) THEN custom[k] ELSE clientHeaders.kv[k]]
    IN [header |-> SetEach(afterClient, custom, o2, 1),
        clientHeaders |-> IF clientHeaders.alloc THEN [clientHeaders EXCEPT !.kv = stored]
                          ELSE clientHeaders]

\* setHeaders; o1 and o2 are the orders in which the two range loops run.
\* Maps are passed by reference, so the Client's map is part of the result.
setHeaders(h, clientHeaders, customHeaders, o1, o2) ==
    LET afterClient == SetEach(h, clientHeaders.kv, o1, 1)
        custom == [k \in Keys(customHeaders) |-> ToString(customHeaders.kv[k])]
    IN [header |-> SetEach(afterClient, custom, o2, 1), clientHeaders |-> clientHeaders]

\* q.Add for every param, on top of the query already in the URL
AddAll(q, params) ==
    [k \in (DOMAIN q) \cup Keys(params) |->
        (IF k \in DOMAIN q THEN q[k] ELSE <<>>)
        \o (IF k \in Keys(params) THEN <<ToString(params.kv[k])>> ELSE <<>>)]

RECURSIVE Pairs(_, _, _)
Pairs(k, vs, i) ==
    IF i > Len(vs) THEN <<>>
    ELSE <<QueryEscape(k) \o "=" \o QueryEscape(vs[i])>> \o Pairs(k, vs, i + 1)

\* url.Values.Encode: keys sorted; the result is these pairs joined by "&"
RECURSIVE QueryEncode(_, _)
QueryEncode(q, i) ==
    IF i > Len(ParamKeyOrder) THEN <<>>
    ELSE LET k == ParamKeyOrder[i] IN
         (IF k \in DOMAIN q THEN Pairs(k, q[k], 1) ELSE <<>>) \o QueryEncode(q, i + 1)

\* updateQueryParameters that re-encodes the query without adding params
updateQueryParametersNoAdd(u, params) == QueryEncode(URLQuery(u), 1)

updateQueryParameters(u, params) == QueryEncode(AddAll(URLQuery(u), params), 1)

\* ensureClientInitialized without the nil test
ensureClientInitializedAlways(c, n) == n + 1

\* ensureClientInitialized: the handle after the call
ensureClientInitialized(c, n) == IF c = 0 THEN n + 1 ELSE c

\* Call that gives up when params cannot be serialized
CallErrFailFast(method, urlPath, params) ==
    IF ToUpper(method) # "GET" /\ Marshal(params).err THEN "ErrMarshal"
    ELSE IF ~ValidMethod(method) \/ ParseFails(urlPath) THEN "ErrNewRequest" ELSE "nil"

\* the error Call returns before it sends anything: only http.NewRequest
\* can fail, prepareRequestBody reports nothing
CallErr(method, urlPath, params) ==
    IF ~ValidMethod(method) \/ ParseFails(urlPath) THEN "ErrNewRequest" ELSE "nil"

\* the request Call builds (the lines up to clt.client.Do)
BuildRequest(method, path, hdrs, params, o1, o2, handle) ==
    LET urlPath == endpoint \o path
        isGet == ToUpper(method) = "GET"
        reqBody == IF ~isGet THEN prepareRequestBody(params) ELSE NilReader
        err == CallErr(method, urlPath, params)
        set == setHeaders(EmptyKV, headers, hdrs, o1, o2)
        hdr == IF ~isGet /\ variant = "client.go"
               THEN HeaderSet(set.header, "Content-Type", "application/json")
               ELSE set.header
    IN IF err # "nil"
       THEN [request |-> NoRequest, clientHeaders |-> headers, err |-> err]
       ELSE [request |-> [built |-> TRUE, method |-> method, url |-> urlPath, header |-> hdr,
                          body |-> reqBody,
                          rawQuery |-> IF isGet THEN updateQueryParameters(urlPath, params)
                                       ELSE QueryEncode(URLQuery(urlPath), 1),
                          via |-> handle],
             clientHeaders |-> set.clientHeaders, err |-> "nil"]

\* Call, up to the point where it blocks in clt.client.Do
Call(method, path, hdrs, params, o1, o2) ==
    /\ Ready
    /\ LET handle == ensureClientInitialized(client, created)
           b == BuildRequest(method, path, hdrs, params, o1, o2, handle)
       IN
       /\ client' = handle
       /\ created' = IF client = 0 THEN created + 1 ELSE created
       /\ headers' = b.clientHeaders
       /\ req' = b.request
       /\ resp' = NoResponse
       /\ IF b.request.built
          THEN /\ pc' = "awaiting"
               /\ args' = [method |-> method, path |-> path, headers |-> hdrs, params |-> params]
               /\ UNCHANGED ret
          ELSE /\ pc' = "idle"
               /\ args' = NoArgs
               /\ ret' = [returned |-> TRUE, result |-> NilResult, err |-> b.err]
    /\ UNCHANGED <<variant, endpoint, selfSigned, panicked, concVars>>

\* a Call with arguments drawn from the given sets, in any iteration order
CallFrom(M, P, H, Q) ==
    \E o1 \in Orders(Keys(headers)) :
        \E hdrs \in H :
            \E o2 \in Orders(Keys(hdrs)) :
                \E method \in M, path \in P, params \in Q :
                    Call(method, path, hdrs, params, o1, o2)

-----------------------------------------------------------------------------
(* Response decoding *)

MemberOk == "\"ok\":true"
Tok == {"{", "}", "[", "]", ",", "null", MemberOk}
IsMember(tok) == tok = MemberOk
MemberKey(tok) == "ok"
MemberVal(tok) == TRUE

Bodies == UNION {[1..n -> Tok] : n \in 0..MaxBodyLen}
SampleBodies == {<<"{", MemberOk, "}">>}
Statuses == {200, 404, 500}

\* encoding/json scanner: reads the first JSON value of b, starting at token i
RECURSIVE Scan(_, _, _, _)
Scan(b, i, stack, st) ==
    LET bad == [err |-> "SyntaxError", end |-> i]
        pop == SubSeq(stack, 1, Len(stack) - 1)
        EndValue(s) == IF s = <<>> THEN [err |-> "nil", end |-> i] ELSE Scan(b, i + 1, s, "endValue")
    IN
    IF i > Len(b) THEN [err |-> IF i = 1 THEN "EOF" ELSE "ErrUnexpectedEOF", end |-> i]
    ELSE
    CASE st \in {"beginValue", "beginValueOrEmpty"} ->
            (CASE b[i] = "{" -> Scan(b, i + 1, Append(stack, "obj"), "beginMemberOrEmpty")
               [] b[i] = "[" -> Scan(b, i + 1, Append(stack, "arr"), "beginValueOrEmpty")
               [] b[i] = "null" -> EndValue(stack)
               [] b[i] = "]" /\ st = "beginValueOrEmpty" -> EndValue(pop)
               [] OTHER -> bad)
      [] st \in {"beginMemberOrEmpty", "beginMember"} ->
            (CASE IsMember(b[i]) -> Scan(b, i + 1, stack, "endValue")
               [] b[i] = "}" /\ st = "beginMemberOrEmpty" -> EndValue(pop)
               [] OTHER -> bad)
      [] st = "endValue" ->
            (CASE b[i] = "," /\ stack[Len(stack)] = "obj" -> Scan(b, i + 1, stack, "beginMember")
               [] b[i] = "," /\ stack[Len(stack)] = "arr" -> Scan(b, i + 1, stack, "beginValue")
               [] b[i] = "}" /\ stack[Len(stack)] = "obj" -> EndValue(pop)
               [] b[i] = "]" /\ stack[Len(stack)] = "arr" -> EndValue(pop)
               [] OTHER -> bad)

\* json.NewDecoder(body).Decode(&jsonResponse), jsonResponse a nil map
Decode(b) ==
    LET s == Scan(b, 1, <<>>, "beginValue") IN
    IF s.err # "nil" THEN [result |-> NilResult, err |-> s.err]
    ELSE CASE b[1] = "null" -> [result |-> NilResult, err |-> "nil"]
           [] b[1] = "[" -> [result |-> NilResult, err |-> "UnmarshalTypeError"]
           [] b[1] = "{" ->
                LET ms == {b[j] : j \in {x \in 2..s.end : IsMember(b[x])}} IN
                [result |-> [nil |-> FALSE,
                             kv |-> [k \in {MemberKey(m) : m \in ms} |-> MemberVal(MemberOk)]],
                 err |-> "nil"]

parseJSONResponse(response) ==
    LET d == Decode(response.body) IN
    IF d.err # "nil" THEN [result |-> NilResult, err |-> d.err]
    ELSE [result |-> d.result, err |-> "nil"]

\* clt.client.Do fails: Call returns the transport error
DoFails ==
    /\ pc = "awaiting"
    /\ pc' = "idle"
    /\ ret' = [returned |-> TRUE, result |-> NilResult, err |-> "ErrTransport"]
    /\ resp' = NoResponse
    /\ args' = NoArgs
    /\ req' = NoRequest
    /\ UNCHANGED <<variant, client, created, panicked, cfgVars, concVars>>

\* Call that treats 4xx/5xx as failures
OutcomeByStatus(response) ==
    LET p == parseJSONResponse(response) IN
    IF response.status >= 400 THEN [returned |-> TRUE, result |-> NilResult, err |-> "ErrStatus"]
    ELSE [returned |-> TRUE, result |-> p.result, err |-> p.err]

\* the outcome of Call once the round trip delivered `response`
Outcome(response) ==
    LET p == parseJSONResponse(response) IN
    [returned |-> TRUE, result |-> p.result, err |-> p.err]

\* clt.client.Do succeeds: the body is decoded and Call returns
DoReturns(status, body) ==
    /\ pc = "awaiting"
    /\ HasScheme(req.url)
    /\ pc' = "idle"
    /\ resp' = [present |-> TRUE, status |-> status, body |-> body]
    /\ ret' = Outcome(resp')
    /\ args' = NoArgs
    /\ req' = NoRequest
    /\ UNCHANGED <<variant, client, created, panicked, cfgVars, concVars>>

DoFrom(S, B) == \E status \in S, body \in B : DoReturns(status, body)

-----------------------------------------------------------------------------
(* Goroutines sharing one Client.  The Client has no lock, so every memory  *)
(* access below is a step of its own and steps of different goroutines      *)
(* interleave freely.                                                       *)

Alive == ~panicked /\ ~fatal

Ranging(t) == \E u \in Threads \ {t} : tpc[u] = "range"

\* clt.headers[key] = value by goroutine t.  A write while another goroutine
\* ranges over the map is a data race: the runtime may throw "concurrent map
\* iteration and map write", and otherwise the iteration may or may not
\* produce the new entry.
GoWriteHeader(t, key, value) ==
    /\ Alive
    /\ tpc[t] = "idle"
    /\ IF ~headers.alloc
       THEN /\ panicked' = TRUE
            /\ UNCHANGED <<headers, tloc, raced, fatal>>
       ELSE /\ Cardinality(Keys(headers) \cup {key}) <= MaxHeaders
            /\ headers' = [headers EXCEPT !.kv = Put(headers.kv, key, value)]
            /\ UNCHANGED panicked
            /\ IF Ranging(t)
               THEN /\ raced' = TRUE
                    /\ fatal' \in BOOLEAN
                    /\ \E seen \in SUBSET ({key} \ Keys(headers)) :
                          tloc' = [u \in Threads |->
                                     IF u # t /\ tpc[u] = "range"
                                     THEN [tloc[u] EXCEPT !.todo = @ \cup seen]
                                     ELSE tloc[u]]
               ELSE UNCHANGED <<tloc, raced, fatal>>
    /\ UNCHANGED <<variant, client, endpoint, selfSigned, created, seqVars, tpc>>

GoAddHeader(t, key, value) == GoWriteHeader(t, key, value)
GoSetProject(t, value) == GoWriteHeader(t, "X-Appwrite-Project", value)
GoSetKey(t, value) == GoWriteHeader(t, "X-Appwrite-Key", value)
GoSetLocale(t, value) == GoWriteHeader(t, "X-Appwrite-Locale", value)
GoSetMode(t, value) == GoWriteHeader(t, "X-Appwrite-Mode", value)

\* ensureClientInitialized under a lock: no test while another goroutine
\* is between its test and its store
GoEnsureLocked(t) ==
    /\ Alive
    /\ tpc[t] = "idle"
    /\ \A u \in Threads \ {t} : tpc[u] # "create"
    /\ tloc' = [tloc EXCEPT ![t] = [NoLocals EXCEPT !.sawNil = (client = 0)]]
    /\ tpc' = [tpc EXCEPT ![t] = IF client = 0 THEN "create" ELSE "build"]
    /\ UNCHANGED <<variant, client, created, panicked, cfgVars, seqVars, raced, fatal>>

\* ensureClientInitialized, the test clt.client == nil
GoEnsure(t) ==
    /\ Alive
    /\ tpc[t] = "idle"
    /\ tloc' = [tloc EXCEPT ![t] = [NoLocals EXCEPT !.sawNil = (client = 0)]]
    /\ tpc' = [tpc EXCEPT ![t] = IF client = 0 THEN "create" ELSE "build"]
    /\ UNCHANGED <<variant, client, created, panicked, cfgVars, seqVars, raced, fatal>>

\* ensureClientInitialized, the store clt.client = &http.Client{}
GoCreate(t) ==
    /\ Alive
    /\ tpc[t] = "create"
    /\ client' = created + 1
    /\ created' = created + 1
    /\ tpc' = [tpc EXCEPT ![t] = "build"]
    /\ UNCHANGED <<variant, panicked, cfgVars, seqVars, tloc, raced, fatal>>

\* the request is built and setHeaders starts to range over clt.headers
GoRangeBegin(t) ==
    /\ Alive
    /\ tpc[t] = "build"
    /\ tloc' = [tloc EXCEPT ![t].todo = Keys(headers), ![t].hdr = EmptyKV]
    /\ tpc' = [tpc EXCEPT ![t] = "range"]
    /\ UNCHANGED <<variant, client, created, panicked, cfgVars, seqVars, raced, fatal>>

\* one iteration of the loop over clt.headers
GoRangeStep(t) ==
    /\ Alive
    /\ tpc[t] = "range"
    /\ \E k \in tloc[t].todo :
          tloc' = [tloc EXCEPT ![t].todo = @ \ {k},
                               ![t].hdr = IF k \in Keys(headers)
                                          THEN HeaderSet(@, k, headers.kv[k]) ELSE @]
    /\ UNCHANGED <<variant, client, created, panicked, cfgVars, seqVars, tpc, raced, fatal>>

\* the loop ends; the rest of Call touches no field of the Client but
\* clt.client, which it reads to send the request
GoFinish(t) ==
    /\ Alive
    /\ tpc[t] = "range"
    /\ tloc[t].todo = {}
    /\ tpc' = [tpc EXCEPT ![t] = "idle"]
    /\ tloc' = [tloc EXCEPT ![t] = NoLocals]
    /\ UNCHANGED <<variant, client, created, panicked, cfgVars, seqVars, raced, fatal>>

NextConc ==
    \E t \in Threads :
        \/ \E k \in AddKeys, v \in AddVals : GoAddHeader(t, k, v)
        \/ \E v \in OneVal : GoSetProject(t, v)
        \/ \E v \in OneVal : GoSetKey(t, v)
        \/ \E v \in OneVal : GoSetLocale(t, v)
        \/ \E v \in OneVal : GoSetMode(t, v)
        \/ GoEnsure(t)
        \/ GoCreate(t)
        \/ GoRangeBegin(t)
        \/ GoRangeStep(t)
        \/ GoFinish(t)

SpecConc == Init /\ [][NextConc]_vars

-----------------------------------------------------------------------------
Next ==
    \/ Setters
    \/ CallFrom({"GET", "POST"}, {"/x"}, CustomMaps, {NilMap})
    \/ CallFrom({"GET", "POST"}, Paths, {NilMap}, ParamMaps)
    \/ CallFrom(Methods \ {"GET", "POST"}, {"/x"}, {NilMap}, ParamMaps)
    \/ DoFails
    \/ DoFrom({200}, SampleBodies)

Spec == Init /\ [][Next]_vars

\* the decoder on every body up to MaxBodyLen tokens
NextDecode ==
    \/ CallFrom({"POST"}, {"/x"}, {NilMap}, {NilMap})
    \/ \E e \in {"http://h/v1"} : SetEndpoint(e)
    \/ DoFails
    \/ DoFrom(Statuses, Bodies)

SpecDecode == Init /\ [][NextDecode]_vars

-----------------------------------------------------------------------------
(* Properties *)

Awaiting == pc = "awaiting"
GetCall == args.method \in {"GET", "get"}
Canon(k) == CanonicalMIMEHeaderKey(k)
Forced == variant = "client.go" /\ ~GetCall
CustomFor(h) == {k \in Keys(args.headers) : Canon(k) = h}
ClientFor(h) == {k \in Keys(headers) : Canon(k) = h}
QueryPair(k, x) == QueryEscape(k) \o "=" \o QueryEscape(ToString(x))
InQuery(q, pair) == \E i \in 1..Len(q) : q[i] = pair

\* C1 as stated: in the outbound request every key of the custom map carries
\* the custom value (in string form), and every key found only in the
\* Client's map carries the Client's value.
C1_CustomWinsByKey ==
    Awaiting =>
        /\ \A k \in Keys(args.headers) : HeaderGet(req.header, k) = ToString(args.headers.kv[k])
        /\ \A k \in Keys(headers) \ Keys(args.headers) : HeaderGet(req.header, k) = headers.kv[k]

\* C1 amended: header names are compared in canonical form.  A name some
\* custom key canonicalises to carries the string form of a custom value
\* given under that name; a name only Client keys canonicalise to carries a
\* Client value given under that name; no other name is set.  The exception
\* is Content-Type on a non-GET call of src/client.go, always
\* application/json.
C1_CustomWinsByCanonicalName ==
    Awaiting =>
        \A h \in (DOMAIN req.header) \cup {Canon(k) : k \in Keys(args.headers) \cup Keys(headers)} :
            IF Forced /\ h = "Content-Type"
            THEN h \in DOMAIN req.header /\ req.header[h] = "application/json"
            ELSE IF CustomFor(h) # {}
            THEN h \in DOMAIN req.header
                 /\ req.header[h] \in {ToString(args.headers.kv[k]) : k \in CustomFor(h)}
            ELSE /\ ClientFor(h) # {}
                 /\ h \in DOMAIN req.header
                 /\ req.header[h] \in {headers.kv[k] : k \in ClientFor(h)}

\* a request whose custom map and Client map hold the same key with
\* different values, sent with the custom one
C1_Witness ==
    /\ Awaiting
    /\ \E k \in Keys(args.headers) \cap Keys(headers) :
          /\ ToString(args.headers.kv[k]) # headers.kv[k]
          /\ req.header[Canon(k)] = ToString(args.headers.kv[k])

\* C2: a Call whose method is GET in any letter case sends no body, and
\* every entry of params is in the query string, value in string form.
C2_GetQuery ==
    Awaiting /\ GetCall =>
        /\ ~req.body.present
        /\ \A k \in Keys(args.params) : InQuery(req.rawQuery, QueryPair(k, args.params.kv[k]))

\* a lower-case "get" sent with a parameter that needs escaping
C2_Witness ==
    /\ Awaiting
    /\ args.method = "get"
    /\ "a" \in Keys(args.params)
    /\ args.params.kv["a"] = StrVal("a b")
    /\ InQuery(req.rawQuery, "a=a+b")

\* C3: a Call whose method is not GET sends the JSON encoding of params as
\* its body, adds nothing to the query string, and in src/client.go carries
\* Content-Type: application/json.
C3_JsonBody ==
    Awaiting /\ ~GetCall =>
        /\ ~Marshal(args.params).err
        /\ req.body = [present |-> TRUE, data |-> Marshal(args.params).data]
        /\ req.rawQuery = QueryEncode(URLQuery(req.url), 1)
        /\ variant = "client.go" => HeaderGet(req.header, "Content-Type") = "application/json"

\* C4: the transport handle is created at most once; only a Call creates
\* it, once set it never changes, and every request goes through it.
C4_HandleOnce ==
    [][/\ client # 0 => client' = client
       /\ client' # client => pc' = "awaiting" \/ ret'.returned
       /\ created' <= 1
       /\ req'.built => req'.via = client' /\ client' # 0]_vars

\* a Call in flight on the handle that an earlier Call, which has returned,
\* created
C4_Witness ==
    /\ Awaiting
    /\ ret.returned
    /\ created = 1
    /\ req.via = client
    /\ Keys(headers) # {}

\* the whole body is one well-formed JSON value
WellFormed(b) == LET s == Scan(b, 1, <<>>, "beginValue") IN s.err = "nil" /\ s.end = Len(b)

\* C5: after a successful round trip a malformed or truncated body makes
\* Call return an error and a nil result, and the body {"ok":true} makes it
\* return the mapping ok -> true and no error.
C5_MalformedFails ==
    resp.present =>
        /\ ~WellFormed(resp.body) => ret.err # "nil" /\ ret.result.nil
        /\ resp.body = <<"{", MemberOk, "}">> =>
              ret.err = "nil" /\ ret.result = [nil |-> FALSE, kv |-> [k \in {"ok"} |-> TRUE]]

\* C6: what Call returns is decided by the response body alone, whatever the
\* status code; a 4xx/5xx response with a JSON object body comes back as the
\* decoded mapping with no error.
C6_StatusBlind ==
    resp.present =>
        /\ ret = [returned |-> TRUE, result |-> Decode(resp.body).result, err |-> Decode(resp.body).err]
        /\ resp.status >= 400 /\ WellFormed(resp.body) /\ resp.body[1] = "{" =>
              ret.err = "nil" /\ ~ret.result.nil

\* a 500 response decoded into a non-empty mapping
C6_Witness ==
    /\ resp.present
    /\ resp.status = 500
    /\ ret.err = "nil"
    /\ ret.result = [nil |-> FALSE, kv |-> [k \in {"ok"} |-> TRUE]]

\* C7: every setter completes without error on every Client, and the next
\* Call sends each header the setters wrote (unless the custom headers hold
\* that key) to the endpoint set, followed by the path.
C7_SettersTakeEffect ==
    /\ ~panicked
    /\ Awaiting =>
          /\ req.url = endpoint \o args.path
          /\ \A k \in Keys(headers) \ Keys(args.headers) : HeaderGet(req.header, k) = headers.kv[k]

UnsupportedParams == {p \in ParamMaps : Marshal(p).err}

\* C8: a non-GET Call whose params cannot be serialized is not aborted: from
\* any state where a Call can be made to a well-formed URL it goes on to send
\* the request, with no body, and no Call ever returns the serialization
\* failure.
C8_MarshalFailureSwallowed ==
    /\ ret.err # "ErrMarshal"
    /\ Awaiting /\ ~GetCall /\ Marshal(args.params).err => req.built /\ ~req.body.present
    /\ Ready /\ ~ParseFails(endpoint \o "/x") =>
          \A p \in UnsupportedParams :
              ENABLED (/\ CallFrom({"POST"}, {"/x"}, {NilMap}, {p})
                       /\ pc' = "awaiting"
                       /\ ~req'.body.present)

\* a POST in flight without a body because its params hold a NaN
C8_Witness ==
    /\ Awaiting
    /\ args.method = "POST"
    /\ args.params \in UnsupportedParams
    /\ req.built
    /\ ~req.body.present

\* C9: nothing orders the goroutines.  While one goroutine ranges over the
\* header map, an idle one can write the map; while one goroutine is between
\* finding the handle nil and storing a new one (and no one else stored one
\* meanwhile), an idle one can run the same test and find it nil too.
C9_Unsynchronized ==
    \A t \in Threads : \A u \in Threads \ {t} :
        /\ Alive /\ tpc[t] = "range" /\ tpc[u] = "idle" /\ headers.alloc =>
              ENABLED (/\ \E k \in Keys(headers) \cup AddKeys : \E v \in AddVals : GoAddHeader(u, k, v)
                       /\ raced')
        /\ Alive /\ tpc[t] = "create" /\ client = 0 /\ tpc[u] = "idle" =>
              ENABLED (GoEnsure(u) /\ tloc'[u].sawNil)

\* the header map was written during an iteration and two handles exist
C9_Witness ==
    /\ raced
    /\ created = 2
    /\ client = 2

\* a step of Call, as opposed to a step of a setter
CallStep == <<pc, args, req, resp, ret, client>>' # <<pc, args, req, resp, ret, client>>

\* C10: Call changes no field of the Client but the transport handle, so a
\* Call made without custom headers sends only what the Client's headers
\* (and, in src/client.go, the forced Content-Type) give it.
C10_CallFrame ==
    [][CallStep =>
          /\ endpoint' = endpoint /\ headers' = headers /\ selfSigned' = selfSigned
          /\ client' # client => client = 0
          /\ pc' = "awaiting" /\ Keys(args'.headers) = {} =>
                \A h \in DOMAIN req'.header :
                    \/ \E k \in Keys(headers') : Canon(k) = h /\ req'.header[h] = headers'.kv[k]
                    \/ variant = "client.go" /\ h = "Content-Type" /\ req'.header[h] = "application/json"]_vars

\* a later Call in flight with a custom header that the Client's own map
\* does not hold
C10_Witness ==
    /\ Awaiting
    /\ ret.returned
    /\ headers.alloc
    /\ \E k \in Keys(args.headers) : ClientFor(Canon(k)) = {} /\ Canon(k) \in DOMAIN req.header
====
